---- MODULE Spec2Model ----
(***************************************************************************)
(* Model of the thumbnail generator: the canvas compositor drawCanvas      *)
(* (src/App.tsx), the App component's state and handlers (src/App.tsx)     *)
(* and the generation client (src/unnamed/part_000, imported by App.tsx    *)
(* as ./services/geminiService).                                           *)
(***************************************************************************)
EXTENDS Integers, Sequences, FiniteSets, Bags

(***************************************************************************)
(* Bounds of the model.                                                    *)
(***************************************************************************)
\* Source images of the compositor specification are 1..MaxDim pixels a side.
MaxDim == 100
\* Number of generations handleGenerate may start in one behaviour.
MaxGenerations == 2
\* Number of getPromptSuggestions calls that may be pending at once.
MaxPendingSuggestions == 2
\* Number of drawCanvas calls that may be pending at once.
MaxPendingCanvas == 2

\* JavaScript null (a useState<... | null> holding no value).
Null == [null |-> TRUE]

(***************************************************************************)
(* Aspect ratios: the AspectRatio type and targetAspectRatio.split(':').   *)
(***************************************************************************)
AspectRatios == {"16:9", "1:1", "9:16", "4:3", "3:4"}

\* Number(targetAspectRatio.split(':')[0])
TargetW(ar) ==
    CASE ar = "16:9" -> 16
      [] ar = "1:1"  -> 1
      [] ar = "9:16" -> 9
      [] ar = "4:3"  -> 4
      [] ar = "3:4"  -> 3

\* Number(targetAspectRatio.split(':')[1])
TargetH(ar) ==
    CASE ar = "16:9" -> 9
      [] ar = "1:1"  -> 1
      [] ar = "9:16" -> 16
      [] ar = "4:3"  -> 3
      [] ar = "3:4"  -> 4

Abs(x) == IF x < 0 THEN -x ELSE x

(***************************************************************************)
(* Math.round on a non-negative rational num/den: floor(num/den + 1/2),    *)
(* halves rounding up.  The products and quotients drawCanvas rounds are   *)
(* doubles; for sides up to 400 pixels the double result of                *)
(* Math.round(H * (tW / tH)) and Math.round(W / (tW / tH)) equals this     *)
(* exact value for every one of the five ratios.                           *)
(***************************************************************************)
MathRound(num, den) == (2 * num + den) \div (2 * den)

(***************************************************************************)
(* Math.abs(targetRatio - originalRatio) > 0.01, with                      *)
(* targetRatio = tW / tH and originalRatio = W / H evaluated in doubles.   *)
(* Away from a difference of exactly 1/100 the double comparison agrees    *)
(* with the exact one.  At a difference of exactly 1/100 (for example      *)
(* 37 x 50 against 3:4, or 99 x 100 against 1:1) the doubles differ by     *)
(* slightly more than the double 0.01 for each of the five ratios and both *)
(* signs, so the test is true there.                                       *)
(***************************************************************************)
ExceedsTolerance(W, H, ar) ==
    LET d == 100 * Abs(TargetW(ar) * H - W * TargetH(ar))
        t == TargetH(ar) * H
    IN  d > t \/ d = t

\* targetRatio > originalRatio
TargetWider(W, H, ar) == TargetW(ar) * H > W * TargetH(ar)


(***************************************************************************)
(* drawCanvas, the body of image.onload: the canvas and the rectangle the  *)
(* source is drawn into, for a decoded source of W x H pixels.             *)
(***************************************************************************)
\* A variant of CanvasWidth that truncates instead of rounding.
CanvasWidthTruncated(W, H, ar) ==
    IF ExceedsTolerance(W, H, ar) /\ TargetWider(W, H, ar)
    THEN (H * TargetW(ar)) \div TargetH(ar)
    ELSE W

\* canvas.width = Math.round(canvasW)
CanvasWidth(W, H, ar) ==
    IF ExceedsTolerance(W, H, ar) /\ TargetWider(W, H, ar)
    THEN MathRound(H * TargetW(ar), TargetH(ar))
    ELSE MathRound(W, 1)

\* canvas.height = Math.round(canvasH)
CanvasHeight(W, H, ar) ==
    IF ExceedsTolerance(W, H, ar) /\ ~TargetWider(W, H, ar)
    THEN MathRound(W * TargetH(ar), TargetW(ar))
    ELSE MathRound(H, 1)

\* A variant of OffsetX that does not halve the padding.
OffsetXUnhalved(W, H, ar) == MathRound(CanvasWidth(W, H, ar) - W, 1)

\* Math.round(offsetX), offsetX = (canvas.width - originalW) / 2
OffsetX(W, H, ar) == MathRound(CanvasWidth(W, H, ar) - W, 2)

\* Math.round(offsetY), offsetY = (canvas.height - originalH) / 2
OffsetY(W, H, ar) == MathRound(CanvasHeight(W, H, ar) - H, 2)

\* The data URL drawCanvas resolves with, as what it encodes: the source
\* image, the ratio, the canvas size and the arguments of ctx.drawImage.
DrawCanvas(image, ar) ==
    [ src     |-> image,
      ratio   |-> ar,
      width   |-> CanvasWidth(image.w, image.h, ar),
      height  |-> CanvasHeight(image.w, image.h, ar),
      offsetX |-> OffsetX(image.w, image.h, ar),
      offsetY |-> OffsetY(image.w, image.h, ar),
      drawW   |-> image.w,
      drawH   |-> image.h ]

(***************************************************************************)
(* Messages.  A message is a sequence of text fragments; the fragments     *)
(* "blocked" and "safety" are the words errorMessage.includes looks for.   *)
(* The empty message "" is << >>.                                          *)
(***************************************************************************)
Includes(msg, word) == \E i \in 1..Len(msg) : msg[i] = word

\* new Error(message)
Err(msg) == [message |-> msg]

\* The edit path's error when the response holds no image part.
NoImageEdited ==
    <<"No image was generated. The model may have refused the prompt.">>

\* The text-to-image path's error when generatedImages is empty.
NoImageGenerated ==
    <<"No image was generated. The response may have been", "blocked",
      "due to", "safety", "policies. Please revise your prompt.">>

SafetyMessage ==
    <<"The generation was", "blocked", "due to", "safety",
      "policies. Please revise your prompt.">>

\* Messages of the Errors the service's SDK may reject a call with.
ServiceErrorMessages == { <<"quota exceeded">>, <<"request", "blocked">> }

\* Sizes (width, height) of the images the service may return.
ImageSizes == { <<16, 9>> }

(***************************************************************************)
(* What the service does with one request: it answers with an image, it    *)
(* answers without one, or the SDK call rejects with an Error.             *)
(***************************************************************************)
ServiceOutcomes ==
    [kind : {"image"}, size : ImageSizes]
    \cup { [kind |-> "empty"] }
    \cup [kind : {"reject"}, message : ServiceErrorMessages]

(***************************************************************************)
(* generateThumbnail (the generation client).                              *)
(***************************************************************************)
\* A variant of GenerateThumbnailRequests whose edit path falls through
\* into the text-to-image request.
GenerateThumbnailRequestsFallThrough(image) ==
    IF image # Null THEN <<"generateContent", "generateImages">>
    ELSE <<"generateImages">>

\* The SDK requests one call of generateThumbnail issues, in order: the
\* edit path awaits ai.models.generateContent, the text-to-image path
\* awaits ai.models.generateImages.
GenerateThumbnailRequests(image) ==
    IF image # Null THEN <<"generateContent">> ELSE <<"generateImages">>

\* A variant of NormalizeGenerateError that looks for 'safety' only.
NormalizeGenerateErrorSafetyOnly(msg) ==
    IF Includes(msg, "safety")
    THEN Err(SafetyMessage)
    ELSE Err(<<"Failed to generate thumbnail:">> \o msg)

\* The catch block: the Error generateThumbnail rethrows for a caught one.
NormalizeGenerateError(msg) ==
    IF Includes(msg, "blocked") \/ Includes(msg, "safety")
    THEN Err(SafetyMessage)
    ELSE Err(<<"Failed to generate thumbnail:">> \o msg)

\* The Error thrown inside the try block for a service outcome that is not
\* a success.
GenerateThrown(withImage, outcome) ==
    IF outcome.kind = "reject" THEN outcome.message
    ELSE IF withImage THEN NoImageEdited ELSE NoImageGenerated

\* The settlement of one generateThumbnail call for a service outcome:
\* the data URL of the returned image (the image of generation id), or the
\* normalized Error.
GenerateThumbnail(id, withImage, outcome) ==
    IF outcome.kind = "image"
    THEN [ok |-> TRUE,
          url |-> [id |-> id, w |-> outcome.size[1], h |-> outcome.size[2]]]
    ELSE [ok |-> FALSE,
          error |-> NormalizeGenerateError(GenerateThrown(withImage, outcome))]

(***************************************************************************)
(* getPromptSuggestions.                                                   *)
(***************************************************************************)
\* Outcomes of the suggestion request: a JSON answer with a visual_prompt,
\* a JSON answer whose visual_prompt is empty, or a rejected call.
SuggestionOutcomes ==
    { [kind |-> "prompt"], [kind |-> "empty"] }
    \cup [kind : {"reject"}, message : ServiceErrorMessages]

GetPromptSuggestions(outcome) ==
    IF outcome.kind = "prompt"
    THEN [ok |-> TRUE, visual_prompt |-> "suggested"]
    ELSE [ok |-> FALSE,
          error |-> Err(<<"Failed to get prompt suggestions:">> \o
                        (IF outcome.kind = "reject" THEN outcome.message
                         ELSE <<"Invalid response format from AI for suggestions.">>))]

(***************************************************************************)
(* The App component.                                                      *)
(***************************************************************************)
InitialPrompt == "initial"

\* The ratio buttons the user clicks, among the five rendered.
ClickedRatios == {"16:9", "1:1"}

\* Texts the user may leave in the prompt textarea.
TypedPrompts == {"", InitialPrompt}

VARIABLES
    prompt,          \* useState: the prompt text
    uploadedImage,   \* useState: Null or [data |-> reader.result]
    aspectRatio,     \* useState: the selected ratio
    rawImageUrl,     \* useState: Null or the generated image
    finalImageUrl,   \* useState: Null or the composited image
    isLoading,       \* useState
    error,           \* useState: Null or a message
    isSuggesting,    \* useState
    generatePending, \* the generateThumbnail calls not yet settled
    lastCall,        \* Null, or the latest generateThumbnail call and its requests
    suggestPending,  \* number of getPromptSuggestions calls not yet settled
    canvasPending    \* the drawCanvas promises not yet settled

vars == <<prompt, uploadedImage, aspectRatio, rawImageUrl, finalImageUrl,
          isLoading, error, isSuggesting, generatePending, lastCall, suggestPending,
          canvasPending>>

\* JavaScript truthiness of the error state: a non-empty string.
Truthy(e) == e # Null /\ e.message # << >>

\* Number of generateThumbnail calls made so far; call n returns image n.
GenerationCount == IF lastCall = Null THEN 0 ELSE lastCall.id

(***************************************************************************)
(* The render: which controls are enabled and what the display panel       *)
(* shows.                                                                  *)
(***************************************************************************)
\* A variant of GenerateButtonEnabled that ignores isLoading.
GenerateButtonIgnoresLoading == ~(prompt = "" /\ uploadedImage = Null)

\* The Generate button, disabled={isLoading || (!prompt && !uploadedImage)}
GenerateButtonEnabled ==
    ~(isLoading \/ (prompt = "" /\ uploadedImage = Null))

\* The Improve-prompt button, disabled={isLoading || isSuggesting || !prompt}
ImproveButtonEnabled == ~(isLoading \/ isSuggesting \/ prompt = "")

\* The display panel's conditional
\*   isLoading ? <Loader/> : error ? <error panel> : finalImageUrl ? <image> : <empty>
ShowsLoader == isLoading
\* A variant of ShowsError that is not nested under the isLoading test.
ShowsErrorBesideLoader == Truthy(error)
ShowsError  == ~isLoading /\ Truthy(error)
ShowsImage  == ~isLoading /\ ~Truthy(error) /\ finalImageUrl # Null
ShowsEmpty  == ~isLoading /\ ~Truthy(error) /\ finalImageUrl = Null

\* The Try Again button is part of the error panel.
TryAgainRendered == ShowsError

ViewsShown ==
    (IF ShowsLoader THEN {"loader"} ELSE {}) \cup
    (IF ShowsError THEN {"error"} ELSE {}) \cup
    (IF ShowsImage THEN {"image"} ELSE {}) \cup
    (IF ShowsEmpty THEN {"empty"} ELSE {})

(***************************************************************************)
(* useEffect(..., [rawImageUrl, aspectRatio]): after a render in which     *)
(* either changed, a drawCanvas of the new rawImageUrl is started unless   *)
(* it is null.  canvasPending is the bag of the pending promises, each     *)
(* known by its arguments.                                                 *)
(***************************************************************************)
CanvasCall(raw, ar) == [image |-> raw, ratio |-> ar]

CanvasEffect(raw, ar) ==
    IF (raw # rawImageUrl \/ ar # aspectRatio) /\ raw # Null
    THEN /\ BagCardinality(canvasPending) < MaxPendingCanvas
         /\ canvasPending' = canvasPending (+) SetToBag({CanvasCall(raw, ar)})
    ELSE canvasPending' = canvasPending

(***************************************************************************)
(* Form handlers.                                                          *)
(***************************************************************************)
\* The prompt textarea's onChange (disabled={isLoading}).
SetPrompt(p) ==
    /\ ~isLoading
    /\ p # prompt
    /\ prompt' = p
    /\ UNCHANGED <<uploadedImage, aspectRatio, rawImageUrl, finalImageUrl,
                   isLoading, error, isSuggesting, generatePending, lastCall,
                   suggestPending, canvasPending>>

\* An aspect ratio button's onClick (disabled={isLoading}), and the
\* drawCanvas effect that follows the render.
SetAspectRatio(ar) ==
    /\ ~isLoading
    /\ ar # aspectRatio
    /\ aspectRatio' = ar
    /\ CanvasEffect(rawImageUrl, ar)
    /\ UNCHANGED <<prompt, uploadedImage, rawImageUrl, finalImageUrl,
                   isLoading, error, isSuggesting, generatePending, lastCall,
                   suggestPending>>

\* reader.result at onloadend: the data URL of the chosen file (the read
\* of a file the user picked is taken to succeed).
FileDataUrl == [dataUrl |-> "data:image/png;base64,..."]
ReaderResults == {FileDataUrl}

\* handleImageUpload with its reader.onloadend.  The file input is rendered
\* while no image is uploaded; choosing a file starts a FileReader read,
\* which touches no state until onloadend fires.  The step is taken when
\* onloadend fires.
HandleImageUpload(result) ==
    /\ uploadedImage = Null
    /\ uploadedImage' = [data |-> result]
    /\ prompt' = ""
    /\ UNCHANGED <<aspectRatio, rawImageUrl, finalImageUrl, isLoading, error,
                   isSuggesting, generatePending, lastCall, suggestPending,
                   canvasPending>>

\* removeImage: the button is rendered while an image is uploaded.
RemoveImage ==
    /\ uploadedImage # Null
    /\ uploadedImage' = Null
    /\ prompt' = InitialPrompt
    /\ UNCHANGED <<aspectRatio, rawImageUrl, finalImageUrl, isLoading, error,
                   isSuggesting, generatePending, lastCall, suggestPending,
                   canvasPending>>

(***************************************************************************)
(* handleGetSuggestions and the settlement of its getPromptSuggestions     *)
(* call.                                                                   *)
(***************************************************************************)
HandleGetSuggestions ==
    /\ ImproveButtonEnabled
    /\ prompt # ""
    /\ suggestPending < MaxPendingSuggestions
    /\ isSuggesting' = TRUE
    /\ error' = Null
    /\ suggestPending' = suggestPending + 1
    /\ UNCHANGED <<prompt, uploadedImage, aspectRatio, rawImageUrl,
                   finalImageUrl, isLoading, generatePending, lastCall, canvasPending>>

\* await getPromptSuggestions(prompt) returns: setPrompt, then finally.
SuggestResolve(outcome) ==
    /\ suggestPending > 0
    /\ GetPromptSuggestions(outcome).ok
    /\ prompt' = GetPromptSuggestions(outcome).visual_prompt
    /\ isSuggesting' = FALSE
    /\ suggestPending' = suggestPending - 1
    /\ UNCHANGED <<uploadedImage, aspectRatio, rawImageUrl, finalImageUrl,
                   isLoading, error, generatePending, lastCall,
                   canvasPending>>

\* A variant of SuggestReject whose catch block swallows the error.
SuggestRejectSilent(outcome) ==
    /\ suggestPending > 0
    /\ ~GetPromptSuggestions(outcome).ok
    /\ isSuggesting' = FALSE
    /\ suggestPending' = suggestPending - 1
    /\ UNCHANGED <<prompt, uploadedImage, aspectRatio, rawImageUrl,
                   finalImageUrl, isLoading, error, generatePending, lastCall,
                   canvasPending>>

\* await getPromptSuggestions(prompt) throws: catch, then finally.
SuggestReject(outcome) ==
    /\ suggestPending > 0
    /\ ~GetPromptSuggestions(outcome).ok
    /\ error' = Err(<<"Suggestion Error:">> \o
                    GetPromptSuggestions(outcome).error.message)
    /\ isSuggesting' = FALSE
    /\ suggestPending' = suggestPending - 1
    /\ UNCHANGED <<prompt, uploadedImage, aspectRatio, rawImageUrl,
                   finalImageUrl, isLoading, generatePending, lastCall,
                   canvasPending>>

(***************************************************************************)
(* handleGenerate, invoked by the Generate button and by Try Again, up to  *)
(* its await; and the two continuations of the await.                      *)
(***************************************************************************)
\* A pending generateThumbnail call: its number, whether an image was
\* passed, and the image state handleGenerate was invoked in.
NewGenerateCall(image) ==
    [id        |-> GenerationCount + 1,
     withImage |-> image # Null,
     before    |-> [raw |-> rawImageUrl, final |-> finalImageUrl]]

HandleGenerate ==
    /\ GenerateButtonEnabled \/ TryAgainRendered
    /\ ~(prompt = "" /\ uploadedImage = Null)
    /\ GenerationCount < MaxGenerations
    /\ isLoading' = TRUE
    /\ error' = Null
    /\ rawImageUrl' = Null
    /\ finalImageUrl' = Null
    /\ generatePending' = generatePending \cup {NewGenerateCall(uploadedImage)}
    /\ lastCall' = [id        |-> GenerationCount + 1,
                    withImage |-> uploadedImage # Null,
                    requests  |-> GenerateThumbnailRequests(uploadedImage)]
    /\ UNCHANGED <<prompt, uploadedImage, aspectRatio, isSuggesting,
                   suggestPending, canvasPending>>

\* A variant of GenerateResolve without the effect on [rawImageUrl] that
\* sets isLoading false.
GenerateResolveKeepsLoading(call, outcome) ==
    /\ call \in generatePending
    /\ LET r == GenerateThumbnail(call.id, call.withImage, outcome)
       IN  /\ r.ok
           /\ rawImageUrl' = r.url
           /\ CanvasEffect(r.url, aspectRatio)
    /\ generatePending' = generatePending \ {call}
    /\ UNCHANGED <<lastCall, prompt, uploadedImage, aspectRatio, finalImageUrl, error,
                   isSuggesting, suggestPending, isLoading>>

\* generateThumbnail returned: setRawImageUrl(generatedUrl); the effects of
\* the following render set isLoading false and start drawCanvas.
GenerateResolve(call, outcome) ==
    /\ call \in generatePending
    /\ LET r == GenerateThumbnail(call.id, call.withImage, outcome)
       IN  /\ r.ok
           /\ rawImageUrl' = r.url
           /\ CanvasEffect(r.url, aspectRatio)
    /\ isLoading' = FALSE
    /\ generatePending' = generatePending \ {call}
    /\ UNCHANGED <<lastCall, prompt, uploadedImage, aspectRatio, finalImageUrl, error,
                   isSuggesting, suggestPending>>

\* A variant of GenerateReject whose catch block also clears the result.
GenerateRejectClearsImage(call, outcome) ==
    /\ call \in generatePending
    /\ LET r == GenerateThumbnail(call.id, call.withImage, outcome)
       IN  /\ ~r.ok
           /\ error' = r.error
    /\ isLoading' = FALSE
    /\ finalImageUrl' = Null
    /\ generatePending' = generatePending \ {call}
    /\ UNCHANGED <<lastCall, prompt, uploadedImage, aspectRatio, rawImageUrl,
                   isSuggesting, suggestPending, canvasPending>>

\* generateThumbnail threw: setError(err.message); setIsLoading(false).
GenerateReject(call, outcome) ==
    /\ call \in generatePending
    /\ LET r == GenerateThumbnail(call.id, call.withImage, outcome)
       IN  /\ ~r.ok
           /\ error' = r.error
    /\ isLoading' = FALSE
    /\ generatePending' = generatePending \ {call}
    /\ UNCHANGED <<lastCall, prompt, uploadedImage, aspectRatio, rawImageUrl,
                   finalImageUrl, isSuggesting, suggestPending,
                   canvasPending>>

(***************************************************************************)
(* The settlement of a drawCanvas promise.                                 *)
(***************************************************************************)
\* Reasons drawCanvas rejects with: image.onerror, and a null 2d context.
CanvasRejections ==
    {"Failed to load image for canvas rendering.", "Could not get canvas context"}

\* .then(setFinalImageUrl)
CanvasResolve(c) ==
    /\ BagIn(c, canvasPending)
    /\ finalImageUrl' = DrawCanvas(c.image, c.ratio)
    /\ canvasPending' = canvasPending (-) SetToBag({c})
    /\ UNCHANGED <<prompt, uploadedImage, aspectRatio, rawImageUrl, isLoading,
                   error, isSuggesting, generatePending, lastCall, suggestPending>>

\* .catch(err => setError(`Canvas Render Error: ${err.message}`))
CanvasReject(c, reason) ==
    /\ BagIn(c, canvasPending)
    /\ error' = Err(<<"Canvas Render Error:", reason>>)
    /\ canvasPending' = canvasPending (-) SetToBag({c})
    /\ UNCHANGED <<prompt, uploadedImage, aspectRatio, rawImageUrl,
                   finalImageUrl, isLoading, isSuggesting, generatePending, lastCall,
                   suggestPending>>

(***************************************************************************)
(* The App from its first render on.                                       *)
(***************************************************************************)
Init ==
    /\ prompt = InitialPrompt
    /\ uploadedImage = Null
    /\ aspectRatio = "16:9"
    /\ rawImageUrl = Null
    /\ finalImageUrl = Null
    /\ isLoading = FALSE
    /\ error = Null
    /\ isSuggesting = FALSE
    /\ generatePending = {}
    /\ lastCall = Null
    /\ suggestPending = 0
    /\ canvasPending = EmptyBag

Next ==
    \/ \E p \in TypedPrompts : SetPrompt(p)
    \/ \E ar \in ClickedRatios : SetAspectRatio(ar)
    \/ \E result \in ReaderResults : HandleImageUpload(result)
    \/ RemoveImage
    \/ HandleGetSuggestions
    \/ \E o \in SuggestionOutcomes : SuggestResolve(o)
    \/ \E o \in SuggestionOutcomes : SuggestReject(o)
    \/ HandleGenerate
    \/ \E call \in generatePending, o \in ServiceOutcomes : GenerateResolve(call, o)
    \/ \E call \in generatePending, o \in ServiceOutcomes : GenerateReject(call, o)
    \/ \E c \in BagToSet(canvasPending) : CanvasResolve(c)
    \/ \E c \in BagToSet(canvasPending), reason \in CanvasRejections : CanvasReject(c, reason)

Spec == Init /\ [][Next]_vars

(***************************************************************************)
(* The App under the assumption that a pending generateThumbnail call      *)
(* eventually settles: the promise handleGenerate awaits is resolved or    *)
(* rejected, and the continuation runs.                                    *)
(***************************************************************************)
GenerateSettle ==
    \E call \in generatePending, o \in ServiceOutcomes :
        GenerateResolve(call, o) \/ GenerateReject(call, o)

SpecFair == Spec /\ WF_vars(GenerateSettle)

(***************************************************************************)
(* The compositor on its own: the App just after an image-guided           *)
(* generation returned an image of any size up to MaxDim a side, under any *)
(* selected ratio, with the drawCanvas of that image pending.              *)
(***************************************************************************)
InitCanvas ==
    /\ prompt = ""
    /\ uploadedImage = [data |-> FileDataUrl]
    /\ aspectRatio \in AspectRatios
    /\ \E W \in 1..MaxDim, H \in 1..MaxDim :
         /\ rawImageUrl = [id |-> 1, w |-> W, h |-> H]
         /\ canvasPending = SetToBag({CanvasCall(rawImageUrl, aspectRatio)})
    /\ finalImageUrl = Null
    /\ isLoading = FALSE
    /\ error = Null
    /\ isSuggesting = FALSE
    /\ generatePending = {}
    /\ lastCall = [id |-> 1, withImage |-> TRUE, requests |-> <<"generateContent">>]
    /\ suggestPending = 0

NextCanvas ==
    \/ \E c \in BagToSet(canvasPending) : CanvasResolve(c)
    \/ \E c \in BagToSet(canvasPending), reason \in CanvasRejections : CanvasReject(c, reason)

SpecCanvas == InitCanvas /\ [][NextCanvas]_vars

(***************************************************************************)
(* Properties of the compositor, checked under SpecCanvas.                 *)
(***************************************************************************)
Max(a, b) == IF a >= b THEN a ELSE b

\* 100 * |targetRatio - W/H| * (tH * H) and 1 * (tH * H): the exact ratio
\* difference against the tolerance 0.01, cleared of denominators.
RatioDiff100(f) == 100 * Abs(TargetW(f.ratio) * f.src.h - f.src.w * TargetH(f.ratio))
RatioUnit(f) == TargetH(f.ratio) * f.src.h

\* The canvas contains the source, which is drawn unscaled.
ContainsSource(f) ==
    /\ f.width >= f.src.w
    /\ f.height >= f.src.h
    /\ f.drawW = f.src.w
    /\ f.drawH = f.src.h

\* The padded canvas of the spec: one side is the source's, the other is
\* that side times (or over) the target ratio, rounded.
PaddedCanvas(f) ==
    IF TargetWider(f.src.w, f.src.h, f.ratio)
    THEN /\ f.height = f.src.h
         /\ f.width = MathRound(f.src.h * TargetW(f.ratio), TargetH(f.ratio))
    ELSE /\ f.width = f.src.w
         /\ f.height = MathRound(f.src.w * TargetH(f.ratio), TargetW(f.ratio))

\* width / height is the target ratio up to the rounding of one side.
RatioWithinRounding(f) ==
    2 * Abs(f.width * TargetH(f.ratio) - f.height * TargetW(f.ratio))
        <= Max(TargetW(f.ratio), TargetH(f.ratio))

\* C1 as stated: for every source size and ratio the canvas meets the
\* target ratio within rounding, contains the undistorted source, and is
\* H high and round(H * targetRatio) wide when the target ratio exceeds
\* W/H, otherwise W wide and round(W / targetRatio) high.
C1_AlwaysPadded ==
    finalImageUrl # Null =>
        /\ ContainsSource(finalImageUrl)
        /\ RatioWithinRounding(finalImageUrl)
        /\ PaddedCanvas(finalImageUrl)

\* C1 as amended: the canvas always contains the undistorted source; when
\* the ratios differ by more than 0.01 it is the padded canvas and meets
\* the target ratio within rounding; when they differ by less than 0.01
\* it is exactly the source's W x H; at exactly 0.01 it is one of the two.
C1_PaddedOutsideTolerance ==
    finalImageUrl # Null =>
        /\ ContainsSource(finalImageUrl)
        /\ RatioDiff100(finalImageUrl) > RatioUnit(finalImageUrl) =>
              /\ PaddedCanvas(finalImageUrl)
              /\ RatioWithinRounding(finalImageUrl)
        /\ RatioDiff100(finalImageUrl) < RatioUnit(finalImageUrl) =>
              /\ finalImageUrl.width = finalImageUrl.src.w
              /\ finalImageUrl.height = finalImageUrl.src.h
        /\ RatioDiff100(finalImageUrl) = RatioUnit(finalImageUrl) =>
              \/ PaddedCanvas(finalImageUrl)
              \/ /\ finalImageUrl.width = finalImageUrl.src.w
                 /\ finalImageUrl.height = finalImageUrl.src.h

\* A source inside the tolerance has been composited whose padded canvas
\* would differ from the W x H canvas it got.
C1_Witness ==
    /\ finalImageUrl # Null
    /\ RatioDiff100(finalImageUrl) < RatioUnit(finalImageUrl)
    /\ ~PaddedCanvas(finalImageUrl)

\* C2 as stated: when the ratios differ by at most 0.01 the canvas has
\* exactly the source's dimensions and both offsets are 0.
C2_NoPaddingWithinTolerance ==
    (finalImageUrl # Null /\ RatioDiff100(finalImageUrl) <= RatioUnit(finalImageUrl)) =>
        /\ finalImageUrl.width = finalImageUrl.src.w
        /\ finalImageUrl.height = finalImageUrl.src.h
        /\ finalImageUrl.offsetX = 0
        /\ finalImageUrl.offsetY = 0

\* C9: the offsets are non-negative, the drawn W x H rectangle lies inside
\* the canvas, and the padding on opposite sides differs by at most 1.
C9_CenteredInsideCanvas ==
    finalImageUrl # Null =>
        LET f == finalImageUrl
            right  == f.width - f.drawW - f.offsetX
            bottom == f.height - f.drawH - f.offsetY
        IN  /\ f.offsetX >= 0 /\ f.offsetY >= 0
            /\ f.offsetX + f.drawW <= f.width
            /\ f.offsetY + f.drawH <= f.height
            /\ Abs(f.offsetX - right) <= 1
            /\ Abs(f.offsetY - bottom) <= 1

\* A composite whose horizontal padding is odd, so that the offset is a
\* rounded half.
C9_Witness ==
    /\ finalImageUrl # Null
    /\ (finalImageUrl.width - finalImageUrl.src.w) % 2 = 1
    /\ finalImageUrl.offsetX > 0

(***************************************************************************)
(* Properties of the App, checked under Spec.                              *)
(***************************************************************************)
\* C3 as stated: when generateThumbnail rejects, rawImageUrl and
\* finalImageUrl are what they were before handleGenerate was invoked.
C3_FailureRestoresImage ==
    [][\A call \in generatePending, o \in ServiceOutcomes :
          GenerateReject(call, o) =>
              /\ rawImageUrl' = call.before.raw
              /\ finalImageUrl' = call.before.final]_vars

\* C3 as amended: the rejection itself changes only error and isLoading;
\* rawImageUrl and finalImageUrl keep the values they had just before the
\* rejection, and rawImageUrl is null, as handleGenerate left it.
C3_FailureChangesOnlyError ==
    [][\A call \in generatePending, o \in ServiceOutcomes :
          GenerateReject(call, o) =>
              /\ rawImageUrl' = rawImageUrl
              /\ rawImageUrl' = Null
              /\ finalImageUrl' = finalImageUrl
              /\ ~isLoading'
              /\ Truthy(error')
              /\ UNCHANGED <<prompt, uploadedImage, aspectRatio, isSuggesting,
                             canvasPending>>]_vars

\* The second generation has failed, after the first had an image shown.
C3_Witness ==
    /\ lastCall # Null
    /\ lastCall.id = 2
    /\ generatePending = {}
    /\ rawImageUrl = Null
    /\ ShowsError
    /\ error.message[1] = "Failed to generate thumbnail:"

\* C4: the display panel shows exactly one of loader, error panel, final
\* image and empty-state.
C4_ExactlyOneView == Cardinality(ViewsShown) = 1

\* The loader is shown while an error is set and a final image is held.
C4_Witness ==
    /\ isLoading
    /\ Truthy(error)
    /\ finalImageUrl # Null

\* C5: at most one generateThumbnail call and at most one
\* getPromptSuggestions call are outstanding; while a generation is pending
\* the Generate button is disabled and Try Again is not rendered; while a
\* suggestion is pending the Improve-prompt button is disabled.
C5_OneRequestEach ==
    /\ Cardinality(generatePending) <= 1
    /\ suggestPending <= 1
    /\ generatePending # {} => ~GenerateButtonEnabled /\ ~TryAgainRendered
    /\ suggestPending > 0 => ~ImproveButtonEnabled

\* A generation and a suggestion are pending at once.
C5_Witness ==
    /\ generatePending # {}
    /\ suggestPending = 1

\* A step in which a generateThumbnail, getPromptSuggestions or drawCanvas
\* failure reaches its handler.
FailureHandled ==
    \/ \E call \in generatePending, o \in ServiceOutcomes : GenerateReject(call, o)
    \/ \E o \in SuggestionOutcomes : SuggestReject(o)
    \/ \E c \in BagToSet(canvasPending), reason \in CanvasRejections :
          CanvasReject(c, reason)

\* C6: every failure is handled by setting error to a non-empty message;
\* a set error is shown as the error panel with Try Again as soon as no
\* generation is loading; and error is cleared only by a step that starts
\* a generation or a suggestion.
C6_FailuresSurfaced ==
    [][/\ Truthy(error') \/ ~FailureHandled
       /\ (Truthy(error') /\ ~isLoading') => (ShowsError' /\ TryAgainRendered')
       /\ (Truthy(error) /\ ~Truthy(error')) =>
              (HandleGenerate \/ HandleGetSuggestions)]_vars

\* A suggestion failure is shown in place of a final image.
C6_Witness ==
    /\ ShowsError
    /\ error.message[1] = "Suggestion Error:"
    /\ finalImageUrl # Null

\* C7 as stated: when the drawCanvas of the current rawImageUrl under the
\* current ratio resolves, the display panel shows that final image.
C7_RenderedImageShown ==
    [][\A c \in BagToSet(canvasPending) :
          (CanvasResolve(c) /\ c.image = rawImageUrl /\ c.ratio = aspectRatio) =>
              /\ finalImageUrl' = DrawCanvas(rawImageUrl, aspectRatio)
              /\ ShowsImage']_vars

\* C8 as stated: once handleGenerate has started a generation,
\* finalImageUrl never holds a composite of an earlier generation's image.
C8_NoEarlierComposite ==
    (finalImageUrl # Null /\ lastCall # Null) => finalImageUrl.src.id = lastCall.id

\* C10: a generateThumbnail call issues exactly one generateContent request
\* and no generateImages request when an image is passed, exactly one
\* generateImages request and no generateContent request otherwise, and
\* the requests of a call are the same after it has settled, also when it
\* failed.
C10_OneRequestPerMode ==
    lastCall # Null =>
        lastCall.requests =
            IF lastCall.withImage THEN <<"generateContent">> ELSE <<"generateImages">>

\* An image-guided call has failed.
C10_Witness ==
    /\ lastCall # Null
    /\ lastCall.withImage
    /\ generatePending = {}
    /\ ~isLoading
    /\ Truthy(error)
    /\ error.message[1] = "Failed to generate thumbnail:"
    /\ uploadedImage # Null

\* The failure underlying a generateThumbnail call that did not get an
\* image: the SDK's rejection, or the missing image.
GenerateCause(call, o) ==
    IF o.kind = "reject" THEN o.message
    ELSE IF call.withImage THEN NoImageEdited ELSE NoImageGenerated

\* C11: a generateThumbnail call settles once, either with one image data
\* URL, and then the response carried an image, or with one Error whose
\* message is the safety-policy message when the underlying failure
\* message contains 'blocked' or 'safety' and 'Failed to generate
\* thumbnail: <cause>' otherwise; a getPromptSuggestions call settles
\* either with a non-empty visual_prompt, and then the response carried
\* one, or with the Error 'Failed to get prompt suggestions: <cause>'.
C11_ResultOrUnitFailure ==
    [][/\ \A call \in generatePending, o \in ServiceOutcomes :
            /\ GenerateResolve(call, o) =>
                  /\ o.kind = "image"
                  /\ rawImageUrl' = [id |-> call.id, w |-> o.size[1], h |-> o.size[2]]
                  /\ error' = error
                  /\ call \notin generatePending'
            /\ GenerateReject(call, o) =>
                  /\ o.kind # "image"
                  /\ rawImageUrl' = rawImageUrl
                  /\ call \notin generatePending'
                  /\ LET cause == GenerateCause(call, o)
                     IN  error'.message =
                           IF Includes(cause, "blocked") \/ Includes(cause, "safety")
                           THEN SafetyMessage
                           ELSE <<"Failed to generate thumbnail:">> \o cause
       /\ \A o \in SuggestionOutcomes :
            /\ SuggestResolve(o) =>
                  /\ o.kind = "prompt"
                  /\ prompt' # ""
                  /\ error' = error
                  /\ suggestPending' = suggestPending - 1
            /\ SuggestReject(o) =>
                  /\ o.kind # "prompt"
                  /\ prompt' = prompt
                  /\ suggestPending' = suggestPending - 1
                  /\ error'.message =
                        <<"Suggestion Error:", "Failed to get prompt suggestions:">> \o
                        (IF o.kind = "reject" THEN o.message
                         ELSE <<"Invalid response format from AI for suggestions.">>)]_vars

\* A text-to-image call has failed with the safety-policy message, and a
\* suggestion was accepted before it.
C11_Witness ==
    /\ lastCall # Null
    /\ ~lastCall.withImage
    /\ generatePending = {}
    /\ ShowsError
    /\ error.message = SafetyMessage
    /\ prompt = "suggested"

\* C12 as stated: from the success of generateThumbnail until the
\* drawCanvas of the new raw image has settled, isLoading is true, so the
\* display panel does not show the empty-state while that render is
\* pending and no final image is held.
C12_LoadingUntilRendered ==
    (/\ rawImageUrl # Null
     /\ finalImageUrl = Null
     /\ \E c \in BagToSet(canvasPending) : c.image = rawImageUrl) =>
        /\ isLoading
        /\ ~ShowsEmpty

\* C13: isLoading is true only while a generateThumbnail call is
\* outstanding, and, the call settling eventually, a loading App
\* eventually has isLoading false and the Generate button enabled.
C13_LoadingEnds ==
    /\ [](isLoading => generatePending # {})
    /\ isLoading ~> (~isLoading /\ GenerateButtonEnabled)

\* The second generation has succeeded while a suggestion was pending, and
\* loading has ended.
C13_Witness ==
    /\ lastCall # Null
    /\ lastCall.id = 2
    /\ generatePending = {}
    /\ rawImageUrl # Null
    /\ rawImageUrl.id = 2
    /\ suggestPending > 0
    /\ GenerateButtonEnabled

\* C14 as stated: when the last pending drawCanvas of the current
\* rawImageUrl resolves, no render having failed, finalImageUrl is the
\* composite of the current rawImageUrl under the selected aspect ratio,
\* in whatever order the renders started by ratio changes resolved.
C14_LatestRatioRendered ==
    [][\A c \in BagToSet(canvasPending) :
          (/\ CanvasResolve(c)
           /\ canvasPending' = EmptyBag
           /\ c.image = rawImageUrl
           /\ error = Null) =>
              finalImageUrl' = DrawCanvas(rawImageUrl, aspectRatio)]_vars

====
